---------------------------- MODULE Spec2Model ----------------------------
(***************************************************************************)
(* Model of the lasso-selection overlay and query console that            *)
(* draw_graph_with_lasso_and_textbox (src/app.py) injects into the page.   *)
(*                                                                         *)
(* The JavaScript is single threaded: every event handler runs to          *)
(* completion, so each handler is one atomic action.                       *)
(*                                                                         *)
(* The renderer (window.network) is an external collaborator.  Its node    *)
(* data set is modelled by the contract the source states for it:          *)
(*   - nodes.update merges the given fields into the node and leaves the   *)
(*     fields that are not given alone (highlightNodes gives only the      *)
(*     fields whose argument is not null);                                 *)
(*   - a border colour of `undefined` gives the node its old border        *)
(*     colour back, the one derived from its fill (comment at              *)
(*     src/app.py:469, "border color=undefined -> old color").             *)
(***************************************************************************)
EXTENDS Integers, Sequences, FiniteSets, TLC

VARIABLES
    lassoChecked,       \* lassoCheckbox.checked
    isDrawing,          \* var isDrawing
    lassoPoints,        \* var lassoPoints: sequence of overlay-local points
    selectedNodeIDs,    \* var selectedNodeIDs: sequence of node ids
    oldGoldNodes,       \* var oldGoldNodes: sequence of node ids
    nodes,              \* net.body.data.nodes: id -> [fill, border, borderWidth]
    dragView,           \* net.interactionHandler.options.dragView
    zoomView,           \* net.interactionHandler.options.zoomView
    dragNodes,          \* net.interactionHandler.options.dragNodes
    defaultDragView,    \* var defaultDragView (captured when the script loads)
    defaultZoomView,    \* var defaultZoomView
    defaultDragNodes,   \* var defaultDragNodes
    pointerEvents,      \* overlay.style.pointerEvents
    statusBox,          \* statusBox.innerHTML: its last line
    buttonDown,         \* environment: the primary mouse button is held
    lastClick,          \* observation: whether the last event was a click, and its text
    flagsAtEntry,       \* observation: the three flags when lasso mode was last entered
    testPoly,           \* isInsidePolygon on its own: the argument poly
    testPoint,          \* isInsidePolygon on its own: the arguments px, py
    testResult,         \* isInsidePolygon on its own: what it returned
    df,                 \* main(): the rows of the DataFrame iterated so far
    G,                  \* create_graph_from_csv: the graph G
    color,              \* color_communities_girvan_newman: G.nodes[node]['color']
    runs,               \* main(): how often the graph was coloured
    raised              \* main(): the exception that ended it, "" if none

\* The variables of the page script.
pageVars == << lassoChecked, isDrawing, lassoPoints, selectedNodeIDs, oldGoldNodes,
               nodes, dragView, zoomView, dragNodes, defaultDragView,
               defaultZoomView, defaultDragNodes, pointerEvents, statusBox,
               buttonDown, lastClick, flagsAtEntry >>

\* The variables of isInsidePolygon run on its own.
polyVars == << testPoly, testPoint, testResult >>

\* The variables of the Python side: graph building and community colouring.
graphVars == << df, G, color, runs, raised >>

vars == << pageVars, polyVars, graphVars >>

---------------------------------------------------------------------------
(* Bounds of the model *)

\* Longest lasso polygon that is drawn (pointer-down plus pointer-moves).
MaxPts == 3

---------------------------------------------------------------------------
(* The rendered graph and the page layout *)

\* net.body.data.nodes.getIds(): the node ids in the data set's order.
NodeIds == << "A", "B", "C", "D", "E" >>

NodeSet == { NodeIds[i] : i \in 1..Len(NodeIds) }

\* The fill colour each node got from the community colouring (one hue per
\* community): the triangle A, B, C and the pair D, E.
FillOf(n) == IF n \in {"A", "B", "C"} THEN "hue0" ELSE "hue1"

\* The border colour the renderer derives from a fill colour.
DarkerOf(fill) == << "darker", fill >>

\* container.getBoundingClientRect(); the overlay canvas is laid over the
\* container (position absolute, top 0, left 0, 100% x 100%), so
\* overlay.getBoundingClientRect() is the same rectangle.
ContainerRect == [left |-> 2, top |-> 1]

OverlayRect == ContainerRect

\* net.getPositions(nid): canvas coordinates, owned by the renderer.
CanvasPos(n) ==
    CASE n = "A" -> [x |-> 1, y |-> 2]
      [] n = "B" -> [x |-> 5, y |-> 1]
      [] n = "C" -> [x |-> 3, y |-> 8]
      [] n = "D" -> [x |-> 6, y |-> 4]
      [] n = "E" -> [x |-> 1, y |-> 5]

\* The view translation of the renderer (pan), scale 1.
ViewTranslation == [x |-> 3, y |-> 3]

\* net.canvasToDOM(pos): document coordinates of a canvas position.
canvasToDOM(pos) ==
    [x |-> pos.x + ViewTranslation.x + ContainerRect.left,
     y |-> pos.y + ViewTranslation.y + ContainerRect.top]

\* A mouse event at the overlay-local place <<x, y>>.
MouseEventAt(p) ==
    [clientX |-> ContainerRect.left + p[1], clientY |-> ContainerRect.top + p[2]]

\* Where the pointer can be (clientX, clientY of a mouse event): the corners
\* of a triangle that holds every node, and a place inside the triangle.
ClientPositions ==
    { MouseEventAt(p) : p \in { <<3, 3>>, <<15, 3>>, <<3, 15>>, <<7, 7>> } }

\* The corners alone, for the runs that are about the interaction flags.
CornerPositions == { MouseEventAt(p) : p \in { <<3, 3>>, <<15, 3>>, <<3, 15>> } }

---------------------------------------------------------------------------
(* Values *)

\* A field that an update object does not have (a null argument of
\* highlightNodes), and a field that it has.
Absent == << >>

Given(v) == << v >>

\* The JavaScript value undefined, given as a border colour.
Undefined == << "undefined", "" >>

\* The colour name "gold".
Gold == << "named", "gold" >>

\* The style the renderer gives a node whose colour attribute is its fill:
\* the border derived from the fill, the default border width.
InitialStyle(n) ==
    [fill |-> FillOf(n), border |-> DarkerOf(FillOf(n)), borderWidth |-> 1]

Range(s) == { s[i] : i \in 1..Len(s) }

\* Array.prototype.slice(0, k)
SliceTo(s, k) == SubSeq(s, 1, k)

\* What questionInput.value can be when Submit is clicked: nothing, blanks
\* only, a question with blanks around it.
Queries == { << >>, << " ", " " >>, << " ", "a", " " >> }

RECURSIVE TrimLeft(_)
TrimLeft(q) ==
    IF q # << >> /\ Head(q) = " " THEN TrimLeft(Tail(q)) ELSE q

RECURSIVE TrimRight(_)
TrimRight(q) ==
    IF q # << >> /\ q[Len(q)] = " " THEN TrimRight(SubSeq(q, 1, Len(q) - 1)) ELSE q

\* A mutant of trim: the text is taken as typed.
TrimNothing(q) == q

\* String.prototype.trim()
trim(q) == TrimLeft(TrimRight(q))

---------------------------------------------------------------------------
(* Helper functions of the script *)

\* function getLocalPos(e)
getLocalPos(e) ==
    [x |-> e.clientX - OverlayRect.left, y |-> e.clientY - OverlayRect.top]

\* A mutant of getOverlayCoords: the document coordinates are used as they are.
getOverlayCoordsUntranslated(domX, domY) == [x |-> domX, y |-> domY]

\* function getOverlayCoords(domX, domY)
getOverlayCoords(domX, domY) ==
    [x |-> domX - ContainerRect.left, y |-> domY - ContainerRect.top]

\* The page computes in JavaScript Numbers, IEEE 754 binary64: every
\* operation gives the exact result rounded to MantissaBits significant bits,
\* ties to the even neighbour.  A Number is a sign, a whole part and the
\* bits after the binary point (most significant first, no trailing 0);
\* zero has no sign.  Polygon vertices and heights are whole numbers in the
\* model, so differences and products of them are exact and whole; the
\* quotient, the sum after it and a node's x are Numbers.
MantissaBits == 53

FromInt(i) ==
    [neg |-> i < 0, int |-> IF i < 0 THEN -i ELSE i, frac |-> << >>]

Abs(i) == IF i < 0 THEN -i ELSE i

\* The number of bits of the whole number i.
RECURSIVE BitLen(_)
BitLen(i) == IF i = 0 THEN 0 ELSE 1 + BitLen(i \div 2)

\* The first place from lo to hi where f has the bit b, 0 if there is none.
RECURSIVE FirstPlaceIn(_, _, _, _)
FirstPlaceIn(f, b, lo, hi) ==
    IF lo > hi THEN 0
    ELSE IF lo = hi THEN (IF f[lo] = b THEN lo ELSE 0)
    ELSE LET mid == (lo + hi) \div 2
             left == FirstPlaceIn(f, b, lo, mid)
         IN  IF left # 0 THEN left ELSE FirstPlaceIn(f, b, mid + 1, hi)

\* The last place from lo to hi where f has the bit b, 0 if there is none.
RECURSIVE LastPlaceIn(_, _, _, _)
LastPlaceIn(f, b, lo, hi) ==
    IF lo > hi THEN 0
    ELSE IF lo = hi THEN (IF f[lo] = b THEN lo ELSE 0)
    ELSE LET mid == (lo + hi) \div 2
             right == LastPlaceIn(f, b, mid + 1, hi)
         IN  IF right # 0 THEN right ELSE LastPlaceIn(f, b, lo, mid)

\* The number of 0 bits before the first 1 bit.
LeadingZeros(f) ==
    LET one == FirstPlaceIn(f, 1, 1, Len(f))
    IN  IF one = 0 THEN Len(f) ELSE one - 1

\* The place of the last bit of f that is b, 0 if there is none.
LastPlaceOf(f, b) == LastPlaceIn(f, b, 1, Len(f))

DropTrailingZeros(f) == SubSeq(f, 1, LastPlaceOf(f, 1))

\* The bits f plus one unit in the last place, and the carry out of them.
Increment(f) ==
    LET z == LastPlaceOf(f, 0)
    IN  [carry |-> IF z = 0 THEN 1 ELSE 0,
         frac |-> [k \in 1..Len(f) |->
                     IF k < z THEN f[k] ELSE IF k = z THEN 1 ELSE 0]]

\* The Number with sign, whole part and bits as given, zero without sign.
Canonical(neg, int, frac) ==
    LET f == DropTrailingZeros(frac)
    IN  [neg |-> neg /\ (int # 0 \/ f # << >>), int |-> int, frac |-> f]

\* Round to nearest, ties to even: the magnitude int.frac, followed by
\* further non-zero bits when sticky, to MantissaBits significant bits.
Round(neg, int, frac, sticky) ==
    LET keep == IF int > 0 THEN MantissaBits - BitLen(int)
                ELSE LeadingZeros(frac) + MantissaBits
    IN  IF Len(frac) <= keep THEN Canonical(neg, int, frac)
        ELSE LET kept == SubSeq(frac, 1, keep)
                 guard == frac[keep + 1]
                 rest == sticky \/ \E k \in (keep + 2)..Len(frac) : frac[k] = 1
                 last == IF keep = 0 THEN int % 2 ELSE kept[keep]
                 up == guard = 1 /\ (rest \/ last = 1)
                 inc == Increment(kept)
             IN  IF up THEN Canonical(neg, int + inc.carry, inc.frac)
                 ELSE Canonical(neg, int, kept)

\* Long division: the next n bits of r / b after the binary point (r < b),
\* and the remainder left after them; once the remainder is 0 all further
\* bits are 0 and are left out.
RECURSIVE LongDiv(_, _, _)
LongDiv(r, b, n) ==
    IF n = 0 \/ r = 0 THEN [bits |-> << >>, rem |-> r]
    ELSE IF n = 1
      THEN LET bit == IF 2 * r >= b THEN 1 ELSE 0
           IN  [bits |-> << bit >>, rem |-> 2 * r - bit * b]
    ELSE LET first == LongDiv(r, b, n \div 2)
             more == LongDiv(first.rem, b, n - n \div 2)
         IN  [bits |-> first.bits \o more.bits, rem |-> more.rem]

\* The number of 0 bits with which r / b starts after the binary point
\* (0 < r < b).
RECURSIVE QuotientLeadingZeros(_, _)
QuotientLeadingZeros(r, b) ==
    IF 2 * r >= b THEN 0 ELSE 1 + QuotientLeadingZeros(2 * r, b)

\* a / b of two whole numbers, b not 0.
DivInt(a, b) ==
    LET neg == (a < 0) # (b < 0)
        int == Abs(a) \div Abs(b)
        r == Abs(a) % Abs(b)
        keep == IF int > 0 THEN MantissaBits - BitLen(int)
                ELSE IF r = 0 THEN 0
                ELSE QuotientLeadingZeros(r, Abs(b)) + MantissaBits
        q == LongDiv(r, Abs(b), keep + 1)
    IN  Round(neg, int, q.bits, q.rem # 0)

\* The bits of 1 - 0.f, for bits f that end in 1.
OneMinus(f) == [k \in 1..Len(f) |-> IF k = Len(f) THEN 1 ELSE 1 - f[k]]

\* v + i of a Number and a whole number.
AddInt(v, i) ==
    IF i = 0 THEN v
    ELSE IF v.neg = (i < 0) \/ (v.int = 0 /\ v.frac = << >>)
      THEN Round(i < 0, v.int + Abs(i), v.frac, FALSE)
    ELSE IF Abs(i) <= v.int
      THEN Round(v.neg, v.int - Abs(i), v.frac, FALSE)
    ELSE IF v.frac = << >>
      THEN Round(i < 0, Abs(i) - v.int, << >>, FALSE)
    ELSE Round(i < 0, Abs(i) - v.int - 1, OneMinus(v.frac), FALSE)

\* The first place from lo to hi where f and g differ, 0 if there is none.
RECURSIVE FirstDifference(_, _, _, _)
FirstDifference(f, g, lo, hi) ==
    IF lo > hi THEN 0
    ELSE IF lo = hi THEN (IF f[lo] # g[lo] THEN lo ELSE 0)
    ELSE LET mid == (lo + hi) \div 2
             left == FirstDifference(f, g, lo, mid)
         IN  IF left # 0 THEN left ELSE FirstDifference(f, g, mid + 1, hi)

\* 0.f < 0.g, neither ending in 0
FracLess(f, g) ==
    LET both == IF Len(f) < Len(g) THEN Len(f) ELSE Len(g)
        k == FirstDifference(f, g, 1, both)
    IN  IF k # 0 THEN f[k] < g[k] ELSE Len(f) < Len(g)

MagnitudeLess(u, v) ==
    u.int < v.int \/ (u.int = v.int /\ FracLess(u.frac, v.frac))

\* u < v
Less(u, v) ==
    IF u.neg # v.neg THEN u.neg
    ELSE IF u.neg THEN MagnitudeLess(v, u)
    ELSE MagnitudeLess(u, v)

\* (xj - xi) * (py - yi) / (yj - yi) + xi
CrossingX(py, pi, pj) ==
    AddInt(DivInt((pj.x - pi.x) * (py - pi.y), pj.y - pi.y), pi.x)

\* A mutant of EdgeIntersects: px <= in place of px <.
EdgeIntersectsInclusive(px, py, pi, pj) ==
    /\ (pi.y > py) # (pj.y > py)
    /\ ~Less(CrossingX(py, pi, pj), px)

\* One turn of the loop of isInsidePolygon: does the edge poly[j] -> poly[i]
\* cross the ray?  (yi>py) != (yj>py) comes first and makes yj - yi non-zero
\* where the quotient is taken.
EdgeIntersects(px, py, pi, pj) ==
    /\ (pi.y > py) # (pj.y > py)
    /\ Less(px, CrossingX(py, pi, pj))

\* The index j that goes with i in `for(i=0, j=poly.length-1; ...; j=i++)`.
PrevIndex(i, n) == IF i = 1 THEN n ELSE i - 1

\* The loop of isInsidePolygon from index i on, `inside` being its variable.
RECURSIVE InsideLoop(_, _, _, _, _)
InsideLoop(px, py, poly, i, inside) ==
    IF i > Len(poly) THEN inside
    ELSE LET inter == EdgeIntersects(px, py, poly[i], poly[PrevIndex(i, Len(poly))])
         IN  InsideLoop(px, py, poly, i + 1, IF inter THEN ~inside ELSE inside)

\* function isInsidePolygon(px, py, poly)
isInsidePolygon(px, py, poly) == InsideLoop(px, py, poly, 1, FALSE)

\* The overlay-local position the finalize step tests for a node.
OverlayPosOf(nid) ==
    LET domPos == canvasToDOM(CanvasPos(nid))
    IN  getOverlayCoords(domPos.x, domPos.y)

\* Array.prototype.filter over a sequence, keeping the order.
RECURSIVE SelectSeqIn(_, _)
SelectSeqIn(s, poly) ==
    IF s = << >> THEN << >>
    ELSE LET p == OverlayPosOf(Head(s))
         IN  (IF isInsidePolygon(FromInt(p.x), p.y, poly)
                THEN << Head(s) >> ELSE << >>)
               \o SelectSeqIn(Tail(s), poly)

\* The loop of the mouseup handler that fills newlySelected.
NewlySelected(poly) == SelectSeqIn(NodeIds, poly)

\* A mutant of UpdateOne: a colour that is given is taken as the colour of the
\* whole node, fill and border.
UpdateOneWholeColour(ns, u) ==
    [ns EXCEPT ![u.id] =
        [fill |-> IF u.border = Absent \/ u.border[1] = Undefined THEN @.fill
                  ELSE u.border[1][2],
         border |-> IF u.border = Absent THEN @.border
                    ELSE IF u.border[1] = Undefined THEN DarkerOf(@.fill)
                    ELSE u.border[1],
         borderWidth |-> IF u.borderWidth = Absent THEN @.borderWidth
                         ELSE u.borderWidth[1]]]

\* net.body.data.nodes.update of one update object.
UpdateOne(ns, u) ==
    [ns EXCEPT ![u.id] =
        [fill |-> @.fill,
         border |-> IF u.border = Absent THEN @.border
                    ELSE IF u.border[1] = Undefined THEN DarkerOf(@.fill)
                    ELSE u.border[1],
         borderWidth |-> IF u.borderWidth = Absent THEN @.borderWidth
                         ELSE u.borderWidth[1]]]

\* net.body.data.nodes.update(updates)
RECURSIVE NodesUpdate(_, _)
NodesUpdate(ns, updates) ==
    IF updates = << >> THEN ns
    ELSE NodesUpdate(UpdateOne(ns, Head(updates)), Tail(updates))

\* function highlightNodes(nodeIDs, borderWidthVal, borderColorVal); a null
\* argument is Absent.
highlightNodes(ns, nodeIDs, borderWidthVal, borderColorVal) ==
    NodesUpdate(ns,
        [i \in 1..Len(nodeIDs) |->
            [id |-> nodeIDs[i], borderWidth |-> borderWidthVal,
             border |-> borderColorVal]])

\* A mutant of revertNodesToDefault: only the border width is reset.
revertWidthOnly(ns, nodeIDs) ==
    NodesUpdate(ns,
        [i \in 1..Len(nodeIDs) |->
            [id |-> nodeIDs[i], borderWidth |-> Given(1), border |-> Absent]])

\* A mutant of revertNodesToDefault: the border gets a fixed default colour.
revertToFixedBorder(ns, nodeIDs) ==
    NodesUpdate(ns,
        [i \in 1..Len(nodeIDs) |->
            [id |-> nodeIDs[i], borderWidth |-> Given(1),
             border |-> Given(<< "named", "default" >>)]])

\* function revertNodesToDefault(nodeIDs)
revertNodesToDefault(ns, nodeIDs) ==
    NodesUpdate(ns,
        [i \in 1..Len(nodeIDs) |->
            [id |-> nodeIDs[i], borderWidth |-> Given(1), border |-> Given(Undefined)]])

\* function logStatus(msg): msg is appended as the new last line of the box,
\* and the last line is what the model keeps of the box.
logStatus(box, msg) == msg

Msg(text, question, ids) == [text |-> text, question |-> question, ids |-> ids]

---------------------------------------------------------------------------
(* The state changes of the handlers *)

\* A mutant of EnterLassoFlags: zooming stays enabled.
EnterLassoFlagsZoomLeft == << FALSE, zoomView, FALSE >>

\* The change handler, lassoOn: dragView, zoomView, dragNodes.
EnterLassoFlags == << FALSE, FALSE, FALSE >>

\* A mutant of LeaveLassoFlags: the flags are set to hardcoded defaults.
LeaveLassoFlagsHardcoded == << TRUE, TRUE, TRUE >>

\* The change handler, lasso off: dragView, zoomView, dragNodes.
LeaveLassoFlags == << defaultDragView, defaultZoomView, defaultDragNodes >>

\* A mutant of FinalizeStyles: the new selection is styled before the old one
\* is reverted.
FinalizeStylesHighlightFirst(ns, old, new) ==
    LET styled == highlightNodes(ns, new, Given(5), Absent)
    IN  IF Len(old) > 0 THEN revertNodesToDefault(styled, old) ELSE styled

\* The mouseup handler's two style updates: revert the old selection, then
\* highlight the new one with borderWidth 5.
FinalizeStyles(ns, old, new) ==
    LET reverted == IF Len(old) > 0 THEN revertNodesToDefault(ns, old) ELSE ns
    IN  highlightNodes(reverted, new, Given(5), Absent)

\* A mutant of SubmitSubset: half is rounded up.
SubmitSubsetCeil(sel) == SliceTo(sel, (Len(sel) + 1) \div 2)

\* The click handler: half = Math.floor(length/2); subset = slice(0, half).
SubmitSubset(sel) == SliceTo(sel, Len(sel) \div 2)

\* A mutant of SubmitStyles: the whole selection gets the gold border.
SubmitStylesWholeSelection(ns, oldGold, subset) ==
    highlightNodes(revertNodesToDefault(ns, oldGold), selectedNodeIDs, Absent, Given(Gold))

\* The click handler's two style updates: revert the old gold nodes, then
\* highlight the subset with a gold border.
SubmitStyles(ns, oldGold, subset) ==
    highlightNodes(revertNodesToDefault(ns, oldGold), subset, Absent, Given(Gold))

\* The observation of the last event: a click on Submit with this text, or
\* another event.
Click(text) == [click |-> TRUE, text |-> text]

NoClick == [click |-> FALSE, text |-> << >>]

\* nx.Graph(): no node, no edge.
\* node: the nodes in the order they were added; adj: each node's neighbours
\* in the order they were added; title: the attribute of each edge, an edge
\* being the set of its ends.
EmptyGraph == [node |-> << >>, adj |-> << >>, title |-> << >>]

---------------------------------------------------------------------------
(* Initial state: the script has run (DOMContentLoaded) *)

InitPage ==
    /\ lassoChecked = FALSE
    /\ isDrawing = FALSE
    /\ lassoPoints = << >>
    /\ selectedNodeIDs = << >>
    /\ oldGoldNodes = << >>
    /\ nodes = [n \in NodeSet |-> InitialStyle(n)]
    /\ defaultDragView = dragView
    /\ defaultZoomView = zoomView
    /\ defaultDragNodes = dragNodes
    /\ pointerEvents = "none"
    /\ statusBox = Msg("", << >>, << >>)
    /\ buttonDown = FALSE
    /\ lastClick = NoClick
    /\ flagsAtEntry = << dragView, zoomView, dragNodes >>

\* isInsidePolygon has not been called on its own.
PolyIdle ==
    /\ testPoly = << >>
    /\ testPoint = << >>
    /\ testResult = "untested"

\* main() has not read a file: no row iterated, G as nx.Graph() makes it,
\* nothing coloured.
GraphIdle ==
    /\ df = << >>
    /\ G = EmptyGraph
    /\ color = << >>
    /\ runs = 0
    /\ raised = ""

\* Everything but the renderer's interaction options.
InitExceptFlags ==
    /\ InitPage
    /\ PolyIdle
    /\ GraphIdle

\* The renderer's interaction options are what the generated page leaves
\* them: panning, zooming and node dragging enabled.
Init ==
    /\ dragView = TRUE
    /\ zoomView = TRUE
    /\ dragNodes = TRUE
    /\ InitExceptFlags

\* The renderer's interaction options are any three values.
InitAnyFlags ==
    /\ dragView \in BOOLEAN
    /\ zoomView \in BOOLEAN
    /\ dragNodes \in BOOLEAN
    /\ InitExceptFlags

---------------------------------------------------------------------------
(* The event handlers *)

\* lassoCheckbox "change": the checkbox has flipped, then the handler runs.
LassoChange ==
    /\ lassoChecked' = ~lassoChecked
    /\ IF lassoChecked'
         THEN /\ dragView' = EnterLassoFlags[1]
              /\ zoomView' = EnterLassoFlags[2]
              /\ dragNodes' = EnterLassoFlags[3]
              /\ pointerEvents' = "auto"
              /\ statusBox' = logStatus(statusBox, Msg("Lasso: ON", << >>, << >>))
              /\ flagsAtEntry' = << dragView, zoomView, dragNodes >>
         ELSE /\ dragView' = LeaveLassoFlags[1]
              /\ zoomView' = LeaveLassoFlags[2]
              /\ dragNodes' = LeaveLassoFlags[3]
              /\ pointerEvents' = "none"
              /\ statusBox' = logStatus(statusBox, Msg("Lasso: OFF", << >>, << >>))
              /\ UNCHANGED flagsAtEntry
    /\ lastClick' = NoClick
    /\ UNCHANGED << isDrawing, lassoPoints, selectedNodeIDs, oldGoldNodes, nodes,
                    defaultDragView, defaultZoomView, defaultDragNodes, buttonDown,
                    polyVars, graphVars >>

\* overlay "mousedown"
MouseDown(e) ==
    /\ ~buttonDown
    /\ buttonDown' = TRUE
    /\ IF lassoChecked
         THEN /\ isDrawing' = TRUE
              /\ lassoPoints' = << getLocalPos(e) >>
         ELSE UNCHANGED << isDrawing, lassoPoints >>
    /\ lastClick' = NoClick
    /\ UNCHANGED << lassoChecked, selectedNodeIDs, oldGoldNodes, nodes, dragView,
                    zoomView, dragNodes, defaultDragView, defaultZoomView,
                    defaultDragNodes, pointerEvents, statusBox, flagsAtEntry,
                    polyVars, graphVars >>

\* overlay "mousemove"
MouseMove(e) ==
    /\ IF isDrawing /\ lassoChecked
         THEN /\ Len(lassoPoints) < MaxPts
              /\ lassoPoints' = Append(lassoPoints, getLocalPos(e))
         ELSE UNCHANGED lassoPoints
    /\ lastClick' = NoClick
    /\ UNCHANGED << lassoChecked, isDrawing, selectedNodeIDs, oldGoldNodes, nodes,
                    dragView, zoomView, dragNodes, defaultDragView, defaultZoomView,
                    defaultDragNodes, pointerEvents, statusBox, buttonDown,
                    flagsAtEntry,
                    polyVars, graphVars >>

\* overlay "mouseup"
MouseUp ==
    /\ buttonDown
    /\ buttonDown' = FALSE
    /\ IF isDrawing /\ lassoChecked
         THEN LET newlySelected == NewlySelected(lassoPoints)
              IN  /\ isDrawing' = FALSE
                  /\ nodes' = FinalizeStyles(nodes, selectedNodeIDs, newlySelected)
                  /\ selectedNodeIDs' = newlySelected
                  /\ statusBox' = logStatus(statusBox,
                                     Msg("New lasso selection: ", << >>, newlySelected))
                  /\ lassoPoints' = << >>
                  /\ lastClick' = NoClick
         ELSE /\ UNCHANGED << isDrawing, nodes, selectedNodeIDs, statusBox, lassoPoints >>
              /\ lastClick' = NoClick
    /\ UNCHANGED << lassoChecked, oldGoldNodes, dragView, zoomView, dragNodes,
                    defaultDragView, defaultZoomView, defaultDragNodes,
                    pointerEvents, flagsAtEntry,
                    polyVars, graphVars >>

\* submitButton "click", text being questionInput.value
Submit(text) ==
    LET question == trim(text)
        subset == SubmitSubset(selectedNodeIDs)
    IN  /\ IF question = << >>
             THEN UNCHANGED << nodes, oldGoldNodes, statusBox >>
             ELSE /\ statusBox' = logStatus(statusBox,
                                     Msg("Response to question", question, selectedNodeIDs))
                  /\ nodes' = SubmitStyles(nodes, oldGoldNodes, subset)
                  /\ oldGoldNodes' = subset
        /\ lastClick' = Click(text)
        /\ UNCHANGED << lassoChecked, isDrawing, lassoPoints, selectedNodeIDs, dragView,
                        zoomView, dragNodes, defaultDragView, defaultZoomView,
                        defaultDragNodes, pointerEvents, buttonDown, flagsAtEntry,
                    polyVars, graphVars >>

Next ==
    \/ LassoChange
    \/ \E e \in ClientPositions : MouseDown(e)
    \/ \E e \in ClientPositions : MouseMove(e)
    \/ MouseUp
    \/ \E text \in Queries : Submit(text)

Spec == Init /\ [][Next]_vars

\* The same handlers, the pointer at fewer places and the interaction flags
\* starting at any values.
NextCorner ==
    \/ LassoChange
    \/ \E e \in CornerPositions : MouseDown(e)
    \/ \E e \in CornerPositions : MouseMove(e)
    \/ MouseUp
    \/ \E text \in Queries : Submit(text)

SpecAnyFlags == InitAnyFlags /\ [][NextCorner]_vars

---------------------------------------------------------------------------
(* isInsidePolygon on its own *)

\* The longest polygon handed to isInsidePolygon.
MaxPolyLen == 4

\* Where the vertices of the polygons lie: the corners of a square, its
\* centre, which is collinear with two of the corners, and a point that
\* makes a slope of 3 with a corner.
PolyVertices ==
    { [x |-> 0, y |-> 0], [x |-> 0, y |-> 10], [x |-> 10, y |-> 10],
      [x |-> 10, y |-> 0], [x |-> 5, y |-> 5], [x |-> 1, y |-> 3] }

\* Points of whole coordinates: on vertices, on edges, inside, outside.
GridPoints ==
    { [x |-> FromInt(px), y |-> py] : px \in {0, 5, 10, 15}, py \in {0, 5, 10} }

\* Points at height 1 whose x is where the loop finds the segment between
\* (0,0) and (1,3), taken in either direction.
NearLinePoints ==
    LET ends == { [x |-> 0, y |-> 0], [x |-> 1, y |-> 3] }
    IN  { [x |-> CrossingX(1, e[1], e[2]), y |-> 1] :
              e \in { d \in ends \X ends : d[1] # d[2] } }

\* Where the tested points lie.
TestPoints == GridPoints \cup NearLinePoints

\* The vertex lists of length 0 to MaxPolyLen.
Polygons == UNION { [1..k -> PolyVertices] : k \in 0..MaxPolyLen }

\* Any polygon, any point, the page as loaded.
InitPolygon ==
    /\ testPoly \in Polygons
    /\ testPoint \in TestPoints
    /\ testResult = "untested"
    /\ dragView = TRUE
    /\ zoomView = TRUE
    /\ dragNodes = TRUE
    /\ InitPage
    /\ GraphIdle

\* One call isInsidePolygon(px, py, poly).
TestInside ==
    /\ testResult = "untested"
    /\ testResult' = IF isInsidePolygon(testPoint.x, testPoint.y, testPoly)
                       THEN "inside" ELSE "outside"
    /\ UNCHANGED << testPoly, testPoint, pageVars, graphVars >>

NextPolygon == TestInside

SpecPolygon == InitPolygon /\ [][NextPolygon]_vars

---------------------------------------------------------------------------
(* The Python side: create_graph_from_csv *)

\* The most rows a DataFrame has.
MaxRows == 3

\* str(value) of a cell: a cell the file left empty is NaN.
str(cell) == IF cell = Absent THEN << "n", "a", "n" >> ELSE cell[1]

\* str.strip()
strip(s) == TrimRight(TrimLeft(s))

\* The rows a DataFrame is made of: plain names, the same names padded with
\* blanks, a second label on a pair, a loop, a pair apart from the others,
\* and rows that lack the label or an endpoint.
Rows ==
    LET Row(a, e, b) == [node_1 |-> a, edge |-> e, node_2 |-> b]
        A == Given(<< "A" >>)
        B == Given(<< "B" >>)
        C == Given(<< "C" >>)
        D == Given(<< "D" >>)
        E == Given(<< "E" >>)
        x == Given(<< "x" >>)
        y == Given(<< "y" >>)
    IN  { Row(A, x, B),
          Row(Given(<< " ", "A" >>), y, Given(<< "B", " " >>)),
          Row(B, x, C),
          Row(C, y, A),
          Row(D, x, E),
          Row(C, x, C),
          Row(A, Absent, B),
          Row(D, x, Absent) }

HasNode(g, n) == n \in Range(g.node)

\* G.add_node(n)
add_node(g, n) ==
    IF HasNode(g, n) THEN g
    ELSE [node |-> Append(g.node, n),
          adj |-> [m \in DOMAIN g.adj \cup {n} |->
                     IF m = n THEN << >> ELSE g.adj[m]],
          title |-> g.title]

AppendNew(s, v) == IF v \in Range(s) THEN s ELSE Append(s, v)

\* G.add_edge(u, v, title=label): on a pair that has an edge, the attribute
\* is overwritten.
add_edge(g, u, v, label) ==
    LET h == add_node(add_node(g, u), v)
        adjU == [h.adj EXCEPT ![u] = AppendNew(@, v)]
    IN  [node |-> h.node,
         adj |-> [adjU EXCEPT ![v] = AppendNew(@, u)],
         title |-> [e \in DOMAIN h.title \cup {{u, v}} |->
                      IF e = {u, v} THEN label ELSE h.title[e]]]

\* A mutant of AddRowTo: the names are taken as they stand in the cells.
AddRowToUnstripped(g, row) ==
    LET node1 == str(row.node_1)
        node2 == str(row.node_2)
        edge_label == strip(str(row.edge))
    IN  add_edge(add_node(add_node(g, node1), node2), node1, node2, edge_label)

\* One turn of the loop of create_graph_from_csv.
AddRowTo(g, row) ==
    LET node1 == strip(str(row.node_1))
        node2 == strip(str(row.node_2))
        edge_label == strip(str(row.edge))
    IN  add_edge(add_node(add_node(g, node1), node2), node1, node2, edge_label)

---------------------------------------------------------------------------
(* The Python side: color_communities_girvan_newman *)

\* How often main() colours the graph.
MaxRuns == 2

\* The sum of f over the set S.
RECURSIVE SumOver(_, _)
SumOver(S, f) ==
    IF S = {} THEN 0
    ELSE LET v == CHOOSE w \in S : TRUE
         IN  f[v] + SumOver(S \ {v}, f)

\* The product of f over the set S.
RECURSIVE ProductOver(_, _)
ProductOver(S, f) ==
    IF S = {} THEN 1
    ELSE LET v == CHOOSE w \in S : TRUE
         IN  f[v] * ProductOver(S \ {v}, f)

\* The neighbours of u over the edges E, loops left out.
Nbrs(E, N, u) == { v \in N \ {u} : {u, v} \in E }

\* The nodes within k steps of s.
RECURSIVE Within(_, _, _, _)
Within(E, N, s, k) ==
    IF k = 0 THEN {s}
    ELSE LET near == Within(E, N, s, k - 1)
         IN  near \cup UNION { Nbrs(E, N, u) : u \in near }

\* nx.node_connected_component
ComponentOf(E, N, s) == Within(E, N, s, Cardinality(N))

\* The length of a shortest path from s to t, which is in the component of s.
Dist(E, N, s, t) ==
    CHOOSE k \in 0..Cardinality(N) :
        /\ t \in Within(E, N, s, k)
        /\ k > 0 => t \notin Within(E, N, s, k - 1)

\* The number of shortest paths from s to t.
RECURSIVE Sigma(_, _, _, _)
Sigma(E, N, s, t) ==
    IF s = t THEN 1
    ELSE LET before == { u \in Nbrs(E, N, t) :
                           /\ u \in ComponentOf(E, N, s)
                           /\ Dist(E, N, s, u) = Dist(E, N, s, t) - 1 }
         IN  SumOver(before, [u \in before |-> Sigma(E, N, s, u)])

\* The number of shortest paths from s to t that run over the edge from u
\* to v in this direction.
ThroughDirected(E, N, s, t, u, v) ==
    IF /\ u \in ComponentOf(E, N, s)
       /\ Dist(E, N, s, u) + 1 + Dist(E, N, v, t) = Dist(E, N, s, t)
      THEN Sigma(E, N, s, u) * Sigma(E, N, v, t) ELSE 0

\* The pairs of two nodes joined by a path.
JoinedPairs(E, N) ==
    { p \in SUBSET N : Cardinality(p) = 2 /\ \E s \in p : p \subseteq ComponentOf(E, N, s) }

\* nx.edge_betweenness_centrality of the edge e, times the product of the
\* path counts of all pairs, which is one factor for all edges: over the
\* pairs, the part of the shortest paths that run over e.
Betweenness(E, N, e) ==
    LET pairs == JoinedPairs(E, N)
        First(p) == CHOOSE s \in p : TRUE
        Second(p) == CHOOSE t \in p : t # First(p)
        count == [p \in pairs |-> Sigma(E, N, First(p), Second(p))]
        all == ProductOver(pairs, count)
        u == CHOOSE w \in e : TRUE
        v == CHOOSE w \in e : w # u
        part == [p \in pairs |->
                   (ThroughDirected(E, N, First(p), Second(p), u, v)
                      + ThroughDirected(E, N, First(p), Second(p), v, u))
                     * (all \div count[p])]
    IN  SumOver(pairs, part)

\* The place of the edge e in G.edges(): by the first of its ends in the
\* order of the nodes, then by the place of the other end among that end's
\* neighbours.
EdgePlace(g, e) ==
    LET n == Len(g.node)
        At(i, k) == /\ k <= Len(g.adj[g.node[i]])
                    /\ {g.node[i], g.adj[g.node[i]][k]} = e
        found == { q[1] * (n + 1) + q[2] :
                     q \in { r \in (1..n) \X (1..n) : At(r[1], r[2]) } }
    IN  CHOOSE q \in found : \A r \in found : q <= r

\* most_valuable_edge: max(betweenness, key=betweenness.get), the first of
\* the edges of highest betweenness in the order of G.edges().
most_valuable_edge(g, E) ==
    LET N == Range(g.node)
        betweenness == { << e, Betweenness(E, N, e) >> : e \in E }
        top == { b[1] : b \in { c \in betweenness :
                                  \A d \in betweenness : d[2] <= c[2] } }
    IN  CHOOSE e \in top : \A d \in top : EdgePlace(g, e) <= EdgePlace(g, d)

\* nx.connected_components: the components in the order of their first node.
RECURSIVE ComponentsFrom(_, _, _, _)
ComponentsFrom(E, N, order, seen) ==
    IF order = << >> THEN << >>
    ELSE IF Head(order) \in seen THEN ComponentsFrom(E, N, Tail(order), seen)
    ELSE LET c == ComponentOf(E, N, Head(order))
         IN  << c >> \o ComponentsFrom(E, N, Tail(order), seen \cup c)

connected_components(g, E) == ComponentsFrom(E, Range(g.node), g.node, {})

\* _without_most_central_edges: edges are removed, the most valuable first,
\* until there are more components than before.
RECURSIVE WithoutMostCentral(_, _, _)
WithoutMostCentral(g, E, original_num_components) ==
    IF Len(connected_components(g, E)) > original_num_components THEN E
    ELSE WithoutMostCentral(g, E \ {most_valuable_edge(g, E)},
                            original_num_components)

\* next(nx_community.girvan_newman(G)): a graph without edges gives its
\* components; the loops are removed from a copy, and while the copy has
\* edges the generator yields; if it has none, there is nothing to yield.
girvan_newman_first(g) ==
    LET links == { e \in DOMAIN g.title : Cardinality(e) = 2 }
    IN  IF DOMAIN g.title = {}
          THEN [stop |-> FALSE, communities |-> connected_components(g, {})]
        ELSE IF links = {}
          THEN [stop |-> TRUE, communities |-> << >>]
        ELSE [stop |-> FALSE,
              communities |->
                  connected_components(g,
                      WithoutMostCentral(g, links,
                          Len(connected_components(g, links))))]

\* The characters of the names in the order of their code points.
CodePointOrder == << " ", "A", "B", "C", "D", "E", "a", "n", "x", "y" >>

ord(c) == CHOOSE k \in 1..Len(CodePointOrder) : CodePointOrder[k] = c

\* a < b of two str
StrLess(a, b) ==
    \E k \in 1..Len(b) :
        /\ \A j \in 1..(k - 1) : j <= Len(a) /\ a[j] = b[j]
        /\ k > Len(a) \/ ord(a[k]) < ord(b[k])

\* a < b of two lists of str
ListLess(a, b) ==
    \E k \in 1..Len(b) :
        /\ \A j \in 1..(k - 1) : j <= Len(a) /\ a[j] = b[j]
        /\ k > Len(a) \/ StrLess(a[k], b[k])

\* The list s with v put in before the first element that is greater.
InsertStr(s, v) ==
    LET k == Cardinality({ i \in 1..Len(s) : ~StrLess(v, s[i]) })
    IN  SubSeq(s, 1, k) \o << v >> \o SubSeq(s, k + 1, Len(s))

\* sorted(c) of the str of c, met in the order of the listing.
RECURSIVE sortedStrs(_)
sortedStrs(listing) ==
    IF listing = << >> THEN << >>
    ELSE InsertStr(sortedStrs(SubSeq(listing, 1, Len(listing) - 1)),
                   listing[Len(listing)])

InsertList(s, v) ==
    LET k == Cardinality({ i \in 1..Len(s) : ~ListLess(v, s[i]) })
    IN  SubSeq(s, 1, k) \o << v >> \o SubSeq(s, k + 1, Len(s))

\* sorted(...) of lists of str.
RECURSIVE sortedLists(_)
sortedLists(lists) ==
    IF lists = << >> THEN << >>
    ELSE InsertList(sortedLists(SubSeq(lists, 1, Len(lists) - 1)),
                    lists[Len(lists)])

\* The orders in which the members of the set c can be met.
Listing(c) ==
    { l \in [1..Cardinality(c) -> c] : \A i, j \in DOMAIN l : l[i] = l[j] => i = j }

\* For every community of the tuple an order of its members.
RECURSIVE Listings(_)
Listings(communities) ==
    IF communities = << >> THEN {<< >>}
    ELSE { << l >> \o rest : l \in Listing(Head(communities)),
                             rest \in Listings(Tail(communities)) }

\* A mutant of communities_list: the members of a community stay in the
\* order in which the set gave them.
communitiesUnsortedMembers(listings) == sortedLists(listings)

\* communities_list = sorted(map(sorted, top_level_communities))
communities_list(listings) ==
    sortedLists([k \in DOMAIN listings |-> sortedStrs(listings[k])])

\* sns.color_palette("hls", n).as_hex() for n up to 8.
hls_palette ==
    << << "#db5f57" >>,
       << "#db5f57", "#57d3db" >>,
       << "#db5f57", "#57db5f", "#5f57db" >>,
       << "#db5f57", "#91db57", "#57d3db", "#a157db" >>,
       << "#db5f57", "#b9db57", "#57db94", "#5784db", "#c957db" >>,
       << "#db5f57", "#d3db57", "#57db5f", "#57d3db", "#5f57db", "#db57d3" >>,
       << "#db5f57", "#dbd057", "#75db57", "#57dbaa", "#579bdb", "#8557db",
          "#db57c0" >>,
       << "#db5f57", "#dbc257", "#91db57", "#57db80", "#57d3db", "#5770db",
          "#a157db", "#db57b2" >> >>

palette(n) == IF n = 0 THEN << >> ELSE hls_palette[n]

\* The loops that store the colours: community idx gets palette[idx].
AssignColors(old, list) ==
    LET pal == palette(Len(list))
        members == UNION { Range(list[k]) : k \in DOMAIN list }
        IdxOf(n) == CHOOSE k \in DOMAIN list : n \in Range(list[k])
    IN  [n \in DOMAIN old \cup members |->
            IF n \in members THEN pal[IdxOf(n)] ELSE old[n]]

---------------------------------------------------------------------------
(* The Python side: main() *)

\* One turn of `for _, row in df.iterrows()`.
AddRow(row) ==
    /\ Len(df) < MaxRows
    /\ runs = 0
    /\ df' = Append(df, row)
    /\ G' = AddRowTo(G, row)
    /\ UNCHANGED << color, runs, raised, pageVars, polyVars >>

\* G = color_communities_girvan_newman(G), on the graph that the loop has
\* built, the sets of the communities giving their members in any order.
\* Without a first level of communities next() raises StopIteration.
ColorCommunities ==
    /\ runs < MaxRuns
    /\ runs' = runs + 1
    /\ LET top_level_communities == girvan_newman_first(G)
       IN  IF top_level_communities.stop
             THEN /\ raised' = "StopIteration"
                  /\ color' = color
             ELSE /\ raised' = ""
                  /\ \E listings \in Listings(top_level_communities.communities) :
                        color' = AssignColors(color, communities_list(listings))
    /\ UNCHANGED << df, G, pageVars, polyVars >>

NextGraph ==
    \/ \E row \in Rows : AddRow(row)
    \/ ColorCommunities

SpecGraph == Init /\ [][NextGraph]_vars

---------------------------------------------------------------------------
(* What the properties below speak of *)

\* The text is empty or blanks only.
IsBlank(text) == \A i \in 1..Len(text) : text[i] = " "

\* The step is the mouseup handler finalizing a lasso.
FinalizeStep == buttonDown /\ ~buttonDown' /\ isDrawing /\ lassoChecked

\* The step is a click on Submit with a question that is not blank.
SubmitStep == lastClick'.click /\ ~IsBlank(lastClick'.text)

\* The step is a click on Submit with a blank question.
BlankSubmitStep == lastClick'.click /\ IsBlank(lastClick'.text)

\* The style of a node that is reverted: its fill, the border derived from the
\* fill, width 1.
Reverted(style) ==
    [fill |-> style.fill, border |-> DarkerOf(style.fill), borderWidth |-> 1]

\* The node's screen position, translated into overlay-local coordinates, is
\* inside the closed polygon.
InsideLasso(n, poly) ==
    LET dom == canvasToDOM(CanvasPos(n))
    IN  isInsidePolygon(FromInt(dom.x - OverlayRect.left),
                        dom.y - OverlayRect.top, poly)

\* The place of a node in the renderer's iteration order.
IterationIndex(n) == CHOOSE i \in 1..Len(NodeIds) : NodeIds[i] = n

\* The nodes that display the highlight border colour.
GoldNodes(ns) == { n \in NodeSet : ns[n].border = Gold }

\* The last line of the status box was logged by the handler with this text.
LastLogged(text) == statusBox.text = text

---------------------------------------------------------------------------
(* C1 *)

\* C1: in the lasso finalize handler and in the submit handler the old set is
\* reverted before the new set is styled: a node of both the old and the new
\* set ends the handler with the new styling (finalize: border width 5;
\* submit: the gold border), a node of the old set alone ends it reverted.
C1_RevertBeforeApply ==
    [][ /\ FinalizeStep =>
             \A n \in Range(selectedNodeIDs) :
                 IF n \in Range(selectedNodeIDs')
                   THEN nodes'[n].borderWidth = 5
                   ELSE nodes'[n] = Reverted(nodes[n])
        /\ SubmitStep =>
             \A n \in Range(oldGoldNodes) :
                 IF n \in Range(oldGoldNodes')
                   THEN nodes'[n].border = Gold
                   ELSE nodes'[n] = Reverted(nodes[n]) ]_vars

\* A finalize has just run; of the nodes highlighted under an earlier
\* selection one is selected again and has the emphasis border, another is
\* not and has its reverted style.
C1_Witness ==
    /\ LastLogged("New lasso selection: ")
    /\ \E n \in Range(oldGoldNodes) \cap Range(selectedNodeIDs) :
           nodes[n].borderWidth = 5
    /\ \E m \in Range(oldGoldNodes) \ Range(selectedNodeIDs) :
           nodes[m] = InitialStyle(m)

---------------------------------------------------------------------------
(* C2 *)

---------------------------------------------------------------------------
(* C3 *)

\* C3: a submit with a question that is not blank records as the highlighted
\* subset the first floor(n/2) members of selectedNodeIDs, in their order
\* (sizes 0, 1, 2, 5 give 0, 0, 1, 2), and logs the attempt, also when nothing
\* is selected.
C3_SubmitFirstHalf ==
    [][ SubmitStep =>
          LET n == Len(selectedNodeIDs)
              k == Len(oldGoldNodes')
          IN  /\ 2 * k <= n
              /\ n < 2 * k + 2
              /\ \A i \in 1..k : oldGoldNodes'[i] = selectedNodeIDs[i]
              /\ (n = 0 => k = 0)
              /\ (n = 1 => k = 0)
              /\ (n = 2 => k = 1)
              /\ (n = 5 => k = 2)
              /\ statusBox'.text = "Response to question"
              /\ statusBox'.ids = selectedNodeIDs ]_vars

\* A submit has just run on a selection of five nodes and recorded the first
\* two of them.
C3_Witness ==
    /\ lastClick.click
    /\ ~IsBlank(lastClick.text)
    /\ LastLogged("Response to question")
    /\ Len(selectedNodeIDs) = 5
    /\ oldGoldNodes = << selectedNodeIDs[1], selectedNodeIDs[2] >>

---------------------------------------------------------------------------
(* C4 *)

\* C4: after a submit with a question that is not blank the nodes that display
\* the highlight border colour are exactly the recorded highlighted subset, and
\* the subset is contained in selectedNodeIDs.
C4_GoldIsHighlightedSubset ==
    [][ SubmitStep =>
          /\ GoldNodes(nodes') = Range(oldGoldNodes')
          /\ Range(oldGoldNodes') \subseteq Range(selectedNodeIDs') ]_vars

\* A submit has just highlighted a subset that is not empty: its nodes are
\* gold and the other selected nodes are not.
C4_Witness ==
    /\ lastClick.click
    /\ ~IsBlank(lastClick.text)
    /\ oldGoldNodes # << >>
    /\ GoldNodes(nodes) = Range(oldGoldNodes)
    /\ \E n \in Range(selectedNodeIDs) : nodes[n].border # Gold

---------------------------------------------------------------------------
(* C5 *)

\* C5: toggling lasso mode off while a lasso is being drawn discards the
\* polygon in progress and changes no node style.
C5_ToggleOffDiscardsPolygon ==
    [][ (lassoChecked /\ ~lassoChecked' /\ isDrawing) =>
          (lassoPoints' = << >> /\ nodes' = nodes) ]_vars

---------------------------------------------------------------------------
(* C6 *)

\* C6: after a pointer release the overlay is not in the Drawing state,
\* whatever the lasso mode flag is at the release.
C6_PointerUpLeavesDrawing ==
    [][ (buttonDown /\ ~buttonDown') => ~isDrawing' ]_vars

---------------------------------------------------------------------------
(* C7 *)

\* C7: leaving lasso mode gives the pan, zoom and node-drag flags the values
\* they had when lasso mode was entered, for every combination of values.
C7_LeaveRestoresFlags ==
    [][ (lassoChecked /\ ~lassoChecked') =>
          << dragView', zoomView', dragNodes' >> = flagsAtEntry ]_vars

\* Lasso mode has just been left, and the flags are back at values that are
\* not all the same.
C7_Witness ==
    /\ ~lassoChecked
    /\ LastLogged("Lasso: OFF")
    /\ << dragView, zoomView, dragNodes >> = << FALSE, TRUE, FALSE >>

---------------------------------------------------------------------------
(* C8 *)

\* C8: lasso mode enabled implies pan, zoom and node-drag disabled and pointer
\* capture on; lasso mode disabled implies pointer capture off.
C8_LassoModeFreezesView ==
    /\ lassoChecked =>
          /\ ~dragView
          /\ ~zoomView
          /\ ~dragNodes
          /\ pointerEvents = "auto"
    /\ ~lassoChecked => pointerEvents = "none"

\* Lasso mode is on over a renderer whose three interactions were enabled.
C8_Witness ==
    /\ lassoChecked
    /\ flagsAtEntry = << TRUE, TRUE, TRUE >>
    /\ LastLogged("Lasso: ON")

---------------------------------------------------------------------------
(* C9 *)

\* C9: a submit with an empty or blank question changes neither
\* selectedNodeIDs, nor the highlighted subset, nor a node style, nor the
\* status box.
C9_BlankSubmitIsNoOp ==
    [][ BlankSubmitStep =>
          UNCHANGED << selectedNodeIDs, oldGoldNodes, nodes, statusBox >> ]_vars

\* Submit has just been clicked with blanks as the question, over a selection
\* that has a highlighted subset.
C9_Witness ==
    /\ lastClick.click
    /\ IsBlank(lastClick.text)
    /\ lastClick.text # << >>
    /\ Len(selectedNodeIDs) >= 2
    /\ oldGoldNodes # << >>

---------------------------------------------------------------------------
(* C10 *)

\* C10: a node that has been reverted and not styled again has the fill, the
\* border colour and the border width of the initial state: every node outside
\* the selection has its initial style.
C10_RevertRestoresInitialStyle ==
    \A n \in NodeSet \ Range(selectedNodeIDs) : nodes[n] = InitialStyle(n)

\* A node that was highlighted is outside a later selection, in its initial
\* style.
C10_Witness ==
    /\ selectedNodeIDs # << >>
    /\ \E n \in Range(oldGoldNodes) \ Range(selectedNodeIDs) :
           nodes[n] = InitialStyle(n)

---------------------------------------------------------------------------
(* C11 *)

\* The lists of node ids that a revert is tried on: the two lists the handlers
\* revert, every node alone, every node at once.
RevertInputs ==
    { selectedNodeIDs, oldGoldNodes, NodeIds } \cup { << n >> : n \in NodeSet }

\* C11: revert is idempotent: reverting a node that is in its initial style
\* (never selected or highlighted) leaves its style unchanged, and reverting
\* the same nodes twice gives the node-style table that reverting once gives.
C11_RevertIdempotent ==
    \A s \in RevertInputs :
        LET once == revertNodesToDefault(nodes, s)
        IN  /\ revertNodesToDefault(once, s) = once
            /\ \A n \in Range(s) : nodes[n] = InitialStyle(n) => once[n] = nodes[n]

\* A highlighted node that a revert changes, beside a node that was never
\* styled.
C11_Witness ==
    /\ \E n \in Range(oldGoldNodes) :
           /\ nodes[n].border = Gold
           /\ revertNodesToDefault(nodes, oldGoldNodes)[n] # nodes[n]
    /\ \E m \in NodeSet \ Range(selectedNodeIDs) : nodes[m] = InitialStyle(m)

---------------------------------------------------------------------------
(* C12 *)

\* C12: no selection or highlight operation changes a fill: every node's fill
\* is the colour the community colouring gave it.
C12_FillNeverChanges ==
    \A n \in NodeSet : nodes[n].fill = FillOf(n)

\* After a finalize and a submit: a node with the gold border and the
\* emphasis width, its fill still the community colour.
C12_Witness ==
    /\ LastLogged("Response to question")
    /\ \E n \in Range(oldGoldNodes) :
           /\ nodes[n].border = Gold
           /\ nodes[n].borderWidth = 5
           /\ nodes[n].fill = FillOf(n)

---------------------------------------------------------------------------
(* C20 *)

\* C20: every node of selectedNodeIDs has border width 5 and every other node
\* has border width 1.
C20_SelectedHaveEmphasisWidth ==
    \A n \in NodeSet :
        nodes[n].borderWidth = IF n \in Range(selectedNodeIDs) THEN 5 ELSE 1

---------------------------------------------------------------------------
(* C13 *)

\* The edge from a to b has one endpoint above the height py (y > py) and
\* the other not.
Straddles(a, b, py) ==
    \/ a.y > py /\ b.y <= py
    \/ b.y > py /\ a.y <= py

\* The edge from a to b, which is not horizontal, meets the horizontal line
\* at height py strictly to the right of px: with dy = b.y - a.y, the
\* meeting point is at a.x + (py - a.y) * (b.x - a.x) / dy, and the
\* difference to px is multiplied by the square of dy.
MeetsRightOf(a, b, px, py) ==
    ((a.x - px) * (b.y - a.y) + (py - a.y) * (b.x - a.x)) * (b.y - a.y) > 0

\* The edges of the closed polygon (vertex i joined to the one before it,
\* the first to the last) that the rightward ray from (px, py) crosses.
CrossedEdges(px, py, poly) ==
    { i \in 1..Len(poly) :
        LET a == poly[i]
            b == poly[IF i = 1 THEN Len(poly) ELSE i - 1]
        IN  Straddles(a, b, py) /\ MeetsRightOf(a, b, px, py) }

Square ==
    << [x |-> 0, y |-> 0], [x |-> 10, y |-> 0], [x |-> 10, y |-> 10],
       [x |-> 0, y |-> 10] >>

\* C13: isInsidePolygon answers by the even-odd ray-casting rule on points
\* of whole coordinates: the point
\* is inside exactly when the rightward horizontal ray from it crosses an
\* odd number of polygon edges, an edge counting when one endpoint is above
\* the point's height (y > py) and the other is not, and the crossing lies
\* strictly to the right of the point. So the centre of a square is inside
\* and a point to the right of the square is outside.
C13_EvenOddRule ==
    testResult # "untested" /\ testPoint \in GridPoints =>
        /\ testResult = "inside" <=>
               Cardinality(CrossedEdges(testPoint.x.int, testPoint.y, testPoly)) % 2 = 1
        /\ testPoly = Square /\ testPoint = [x |-> FromInt(5), y |-> 5]
               => testResult = "inside"
        /\ testPoly = Square /\ testPoint = [x |-> FromInt(15), y |-> 5]
               => testResult = "outside"

\* A point on the left edge of the square has been tested: the ray crosses
\* the right edge only.
C13_Witness ==
    /\ testPoly = Square
    /\ testPoint = [x |-> FromInt(0), y |-> 5]
    /\ Cardinality(CrossedEdges(0, 5, Square)) = 1
    /\ testResult = "inside"

---------------------------------------------------------------------------
(* C14 *)

\* All vertices lie on one line: no vertex, one place, two places, or more
\* places in line.  Such a polygon encloses no area.
Collinear(poly) ==
    \A i, j, k \in 1..Len(poly) :
        (poly[j].x - poly[i].x) * (poly[k].y - poly[i].y)
            = (poly[k].x - poly[i].x) * (poly[j].y - poly[i].y)

\* C14: a degenerate lasso polygon (no point, one distinct point, or points
\* in line, which enclose no area) selects nothing wherever the nodes are
\* placed: the mouseup handler keeps a node exactly when isInsidePolygon
\* answers true at the node's overlay position, so at every position the
\* answer for such a polygon is "outside".
C14_DegenerateSelectsNothing ==
    testResult # "untested" /\ Collinear(testPoly) => testResult = "outside"

---------------------------------------------------------------------------
(* C15 *)

\* The text without the blanks before its first and after its last
\* character that is not a blank.
Trimmed(text) ==
    LET solid == { k \in 1..Len(text) : text[k] # " " }
    IN  IF solid = {} THEN << >>
        ELSE SubSeq(text, CHOOSE k \in solid : \A j \in solid : k <= j,
                          CHOOSE k \in solid : \A j \in solid : j <= k)

\* Every row is a triple: both endpoints and the label are there.
TripleList(rows) ==
    \A k \in 1..Len(rows) :
        rows[k].node_1 # Absent /\ rows[k].edge # Absent /\ rows[k].node_2 # Absent

\* The endpoint strings of the rows, trimmed.
TrimmedEndpoints(rows) ==
    UNION { { Trimmed(rows[k].node_1[1]), Trimmed(rows[k].node_2[1]) } :
              k \in 1..Len(rows) }

NodeCountIsUniqueEndpoints ==
    TripleList(df) =>
        /\ Len(G.node) = Cardinality(TrimmedEndpoints(df))
        /\ Cardinality(Range(G.node)) = Len(G.node)
        /\ df = << >> => G = EmptyGraph /\ raised = ""

\* C15: for every list of triples, the empty one included, which gives the
\* empty graph and no error, the graph has as many nodes as there are
\* distinct trimmed endpoint strings; and a triple whose two endpoints are
\* nodes already leaves the number of nodes as it is.
C15_NodeCount ==
    [][ /\ NodeCountIsUniqueEndpoints
        /\ NodeCountIsUniqueEndpoints'
        /\ \A row \in Rows :
              /\ df' = Append(df, row)
              /\ TripleList(<< row >>)
              /\ TrimmedEndpoints(<< row >>) \subseteq Range(G.node)
              => Len(G'.node) = Len(G.node) ]_vars

\* Two triples on one pair of endpoints, once plain and once padded with
\* blanks, have been read: two nodes.
C15_Witness ==
    /\ Len(df) = 2
    /\ TripleList(df)
    /\ df[1].node_1 # df[2].node_1
    /\ Trimmed(df[1].node_1[1]) = Trimmed(df[2].node_1[1])
    /\ Trimmed(df[1].node_2[1]) = Trimmed(df[2].node_2[1])
    /\ Len(G.node) = 2

---------------------------------------------------------------------------
(* C16 *)

\* C16: edges are not merged: every triple that was read still has its own
\* edge between its two endpoints, with its own label, also after a later
\* triple on the same pair.
C16_EveryLabelKept ==
    \A k \in 1..Len(df) :
        TripleList(df) =>
            LET ends == { Trimmed(df[k].node_1[1]), Trimmed(df[k].node_2[1]) }
            IN  /\ ends \in DOMAIN G.title
                /\ G.title[ends] = Trimmed(df[k].edge[1])

---------------------------------------------------------------------------
(* C17 *)

\* C17: once the graph has been coloured, the communities are non-empty,
\* disjoint and cover the nodes, every node has one colour, and two nodes
\* have the same colour exactly when they are in the same community.
C17_PartitionColoured ==
    runs > 0 =>
        LET top == girvan_newman_first(G)
            c == top.communities
        IN  /\ raised = ""
            /\ ~top.stop
            /\ \A k \in DOMAIN c : c[k] # {}
            /\ \A j, k \in DOMAIN c : j # k => c[j] \cap c[k] = {}
            /\ UNION { c[k] : k \in DOMAIN c } = Range(G.node)
            /\ DOMAIN color = Range(G.node)
            /\ \A m, n \in Range(G.node) :
                   color[m] = color[n] <=> \E k \in DOMAIN c : {m, n} \subseteq c[k]

---------------------------------------------------------------------------
(* C18 *)

\* The mappings a run of the colouring on the graph can end with, one for
\* every order in which the sets can give their members.
Outcomes ==
    { AssignColors(color, communities_list(l)) :
        l \in Listings(girvan_newman_first(G).communities) }

\* C18: colouring is deterministic: a run gives one node-to-colour mapping
\* whatever the order in which the communities present their members, and
\* a run on a graph that has been coloured gives the mapping that the graph
\* has.
C18_ColoringDeterministic ==
    ~girvan_newman_first(G).stop =>
        /\ Cardinality(Outcomes) = 1
        /\ runs > 0 => Outcomes = {color}

\* The graph has been coloured twice; a community of several members and
\* one that sorts between the orders of those members got distinct colours.
C18_Witness ==
    /\ runs = MaxRuns
    /\ raised = ""
    /\ \E m, n, o \in DOMAIN color :
           /\ StrLess(m, o) /\ StrLess(o, n)
           /\ color[m] = color[n]
           /\ color[m] # color[o]

---------------------------------------------------------------------------
(* C19 *)

\* The rows of the list that are triples.
RECURSIVE Triples(_)
Triples(rows) ==
    IF rows = << >> THEN << >>
    ELSE (IF TripleList(<< Head(rows) >>) THEN << Head(rows) >> ELSE << >>)
           \o Triples(Tail(rows))

\* C19: a row that lacks an endpoint or the label is dropped: the nodes and
\* the edges of the graph are those of the rows that are triples, and
\* building does not fail.
C19_ShortRowsDropped ==
    /\ Range(G.node) = TrimmedEndpoints(Triples(df))
    /\ DOMAIN G.title =
           { { Trimmed(r.node_1[1]), Trimmed(r.node_2[1]) } : r \in Range(Triples(df)) }
    /\ runs = 0 => raised = ""

---------------------------------------------------------------------------
(* C21 *)

\* A step in which the primary button goes down over the overlay while lasso
\* mode is enabled.
PressInLassoMode == ~buttonDown /\ buttonDown' /\ lassoChecked

\* A step in which a pointer-move put one more point at the end of the polygon.
MoveAppends ==
    /\ buttonDown' = buttonDown
    /\ Len(lassoPoints') = Len(lassoPoints) + 1
    /\ SubSeq(lassoPoints', 1, Len(lassoPoints)) = lassoPoints

\* The polygon after the step holds just the point of the press.
HoldsJustThePress ==
    \E e \in ClientPositions : lassoPoints' = << getLocalPos(e) >>

\* The polygon is empty whenever the overlay is not in the Drawing state.
EmptyOutsideDrawing == ~isDrawing => lassoPoints = << >>

\* C21: one lasso polygon is live at a time and it grows only during a held
\* drag: a pointer-down in lasso mode replaces the polygon by one holding
\* just the press point, a pointer-move appends a point only while the
\* primary button is held, the overlay is in Drawing and lasso mode is
\* enabled, and outside Drawing the polygon is empty.
C21_PolygonGrowsOnlyInHeldDrag ==
    [][ /\ PressInLassoMode => HoldsJustThePress
        /\ MoveAppends => (buttonDown /\ isDrawing /\ lassoChecked)
        /\ EmptyOutsideDrawing' ]_vars

====
